---- MODULE Spec2Model ----
(***************************************************************************)
(* peep: a driver that instruments a Go program with profiling code, runs  *)
(* the instrumented copy with `go run`, and optionally serves a live       *)
(* metrics dashboard.  Five specifications share this module:              *)
(*   SpecPure    - the analysis functions applied to bounded inputs        *)
(*   SpecTree    - the plan main builds from the flags, and processGoFile  *)
(*                 and addImportIfMissing applied to bounded trees         *)
(*   SpecRuns    - several runs of the driver at the same time, and the    *)
(*                 temporary files and directories they share              *)
(*   Spec        - one run of the driver (main, writeAndExecute,           *)
(*                 writeAndExecutePackage, the dashboard goroutine)        *)
(*   SpecMetrics - the metrics relay inside the instrumented program and   *)
(*                 the /metrics handler of the dashboard server            *)
(***************************************************************************)
EXTENDS Integers, Sequences, FiniteSets, TLC

VARIABLES
    \* ---- SpecPure: findMainFile applied to a list of files
    files,      \* the list handed to findMainFile
    parsed,     \* what parser.ParseFile yields for each file name
    found       \* the result of findMainFile, or NoResult before the call

VARIABLES
    \* ---- Spec: one run of the driver
    cfg,        \* the invocation: argument kind, sources, flags
    pc,         \* position of the driver's main goroutine
    status,     \* "running", or the exit status of the driver process
    fs,         \* the file system: path -> what the file holds
    node,       \* the tree processGoFile returned ("nil", "tree")
    mainFile,   \* the entry file findMainFile returned
    ci,         \* index of the copy loop of writeAndExecutePackage
    tempFiles,  \* the .go files listed in the overlay directory
    sub,        \* the `go run` subprocess
    dash,       \* the dashboard server
    ctx,        \* dashboardCtx of signal.NotifyContext
    sig,        \* the interrupt signal has arrived
    analysis,   \* outcome of the analysis (findMainFile, processGoFile)
    retErr,     \* what writeAndExecute / writeAndExecutePackage returned
    summary,    \* the output paths named by the printed summary
    hist        \* what the run has done so far

VARIABLES
    \* ---- SpecMetrics: the relay, the metrics file, the /metrics handler
    runMode,    \* "file" (single-file mode) or "dir" (package mode)
    now,        \* the wall clock, in milliseconds
    ticks,      \* how often the clock has advanced
    disk,       \* peep_metrics.json in each directory: its bytes, or Absent
    relay,      \* the relay goroutine of the instrumented program
    prog,       \* the instrumented program: running, returned, exited
    lastTs,     \* timestampMs of the last snapshot written to disk, or -1
    req,        \* the /metrics request being handled
    resp        \* the last response of the /metrics handler

VARIABLES
    \* ---- SpecTree: the plan and the rewriting of one parsed file
    flags,      \* the -cpu, -mem and -dash flags of the command line
    plan,       \* enableCPU, enableMem, enableWeb as main computes them
    orig,       \* the file as parser.ParseFile yields it
    ast,        \* the tree being rewritten
    tpc,        \* position: "plan", "check", "inject", "imports", "done",
                \* "instrument", "instrumented", "generate"
    gen,        \* the calls of generateUniqueVars so far: bytes drawn, pair
    hasMain,    \* what hasMainFunction returned ("unknown" before the call)
    perr,       \* what processGoFile returned ("pending" before it returns)
    imp         \* the direct calls of addImportIfMissing made so far

VARIABLES
    \* ---- SpecRuns: concurrent runs of the driver and os.TempDir()
    runs,       \* each run: its mode, its position, its overlay directory
    tmpdir,     \* os.TempDir(): for each name the run that created the entry
    clash       \* what a run did to an entry another live run had created

mvars == <<runMode, now, ticks, disk, relay, prog, lastTs, req, resp>>
pvars == <<files, parsed, found>>
dvars == <<cfg, pc, status, fs, node, mainFile, ci, tempFiles, sub, dash, ctx,
           sig, analysis, retErr, summary, hist>>
tvars == <<flags, plan, orig, ast, tpc, gen, hasMain, perr, imp>>
rvars == <<runs, tmpdir, clash>>
vars == <<pvars, dvars, mvars, tvars, rvars>>

\* what the actions of one specification leave alone
nondriver == <<pvars, mvars, tvars, rvars>>
nonpure == <<dvars, mvars, tvars, rvars>>
nonmetrics == <<pvars, dvars, tvars, rvars>>
nontree == <<pvars, dvars, mvars, rvars>>
nonruns == <<pvars, dvars, mvars, tvars>>

Range(s) == {s[i] : i \in DOMAIN s}

(***************************************************************************)
(* Source files.  A parsed file is its import list and its top-level       *)
(* function declarations; a declaration has a name, a receiver flag and a  *)
(* body (a sequence of statements).                                        *)
(***************************************************************************)
\* a statement: what it does, the file name it mentions, and the identifiers
\* it declares or uses for the profile file and the error
NoVar == <<>>
Stmt(op, file, f, e) == [op |-> op, file |-> file, fvar |-> f, evar |-> e]
UserStmt == Stmt("user", "", NoVar, NoVar)

Decl(n, r) == [name |-> n, recv |-> r, body |-> <<UserStmt>>]

Unparseable == [parses |-> FALSE, imports |-> <<>>, decls |-> <<>>]
HelperOnly  == [parses |-> TRUE, imports |-> <<"fmt">>,
                decls |-> <<Decl("helper", FALSE)>>]
MethodMain  == [parses |-> TRUE, imports |-> <<"fmt">>,
                decls |-> <<Decl("main", TRUE), Decl("helper", FALSE)>>]
FuncMain    == [parses |-> TRUE, imports |-> <<"fmt">>,
                decls |-> <<Decl("main", FALSE)>>]
BothMain    == [parses |-> TRUE, imports |-> <<"fmt", "os">>,
                decls |-> <<Decl("main", TRUE), Decl("main", FALSE)>>]

FileContents == {Unparseable, HelperOnly, MethodMain, FuncMain, BothMain}

\* variant of hasMainFunction without the fn.Recv == nil test
HasMainFunctionAnyMain(tree) ==
    \E i \in DOMAIN tree.decls : tree.decls[i].name = "main"

\* hasMainFunction: some function declaration is named main and has no receiver
HasMainFunction(tree) ==
    \E i \in DOMAIN tree.decls :
        tree.decls[i].name = "main" /\ ~tree.decls[i].recv

\* the loop of findMainFile: files that fail to parse are skipped, the rest
\* are appended to mainFiles in list order when they hold a main function
RECURSIVE CollectMainFiles(_, _, _)
CollectMainFiles(fl, content, acc) ==
    IF fl = <<>> THEN acc
    ELSE LET file == Head(fl)
             tree == content[file]
         IN  IF ~tree.parses
             THEN CollectMainFiles(Tail(fl), content, acc)
             ELSE IF HasMainFunction(tree)
                  THEN CollectMainFiles(Tail(fl), content, Append(acc, file))
                  ELSE CollectMainFiles(Tail(fl), content, acc)

NoResult == [path |-> "", err |-> "pending", listed |-> <<>>]

\* variant of findMainFile without the len(mainFiles) > 1 test
FindMainFileFirstMatch(fl, content) ==
    LET mainFiles == CollectMainFiles(fl, content, <<>>)
    IN  IF Len(mainFiles) = 0
        THEN [path |-> "", err |-> "absence", listed |-> <<>>]
        ELSE [path |-> mainFiles[1], err |-> "nil", listed |-> <<>>]

\* findMainFile after its loop: the absence error, the ambiguity error that
\* lists mainFiles, or the one entry file
FindMainFile(fl, content) ==
    LET mainFiles == CollectMainFiles(fl, content, <<>>)
    IN  IF Len(mainFiles) = 0
        THEN [path |-> "", err |-> "absence", listed |-> <<>>]
        ELSE IF Len(mainFiles) > 1
             THEN [path |-> "", err |-> "ambiguity", listed |-> mainFiles]
             ELSE [path |-> mainFiles[1], err |-> "nil", listed |-> <<>>]

(***************************************************************************)
(* The driver.  Paths are (directory, name) pairs; the directories are the *)
(* driver's working directory, the system temp directory, the overlay      *)
(* directory made by os.MkdirTemp, the package directory, and "/" for the  *)
(* absolute output paths.                                                  *)
(***************************************************************************)
Path(d, n) == [dir |-> d, name |-> n]
File(k, o) == [kind |-> k, of |-> o]

AbsPaths == {"/out/cpu.prof", "/out/mem.prof"}

\* a relative path names a file of the directory it is resolved against
Resolve(d, p) == IF p \in AbsPaths THEN Path("/", p) ELSE Path(d, p)

Put(f, p, data) == [q \in (DOMAIN f) \cup {p} |-> IF q = p THEN data ELSE f[q]]
Remove(f, p) == [q \in (DOMAIN f) \ {p} |-> f[q]]
RemoveAll(f, d) == [q \in {r \in DOMAIN f : r.dir # d} |-> f[q]]

TempFile == Path("tmp", "main_prof.go")
OverlayDir == Path("overlay", ".")

PkgOf(fl, c, m, s) == [files |-> fl, content |-> c, gomod |-> m, gosum |-> s]

Packages ==
    { PkgOf(<<"main.go", "util.go">>,
            [f \in {"main.go", "util.go"} |->
                IF f = "main.go" THEN FuncMain ELSE HelperOnly], TRUE, TRUE),
      PkgOf(<<"main.go", "util.go">>,
            [f \in {"main.go", "util.go"} |->
                IF f = "main.go" THEN BothMain ELSE MethodMain], TRUE, FALSE),
      PkgOf(<<"util.go", "main.go">>,
            [f \in {"main.go", "util.go"} |->
                IF f = "main.go" THEN FuncMain ELSE HelperOnly], FALSE, FALSE),
      PkgOf(<<"a.go", "b.go">>,
            [f \in {"a.go", "b.go"} |-> FuncMain], FALSE, FALSE),
      PkgOf(<<"lib.go">>, [f \in {"lib.go"} |-> HelperOnly], TRUE, FALSE) }

NoPkg == PkgOf(<<>>, [f \in {} |-> Unparseable], FALSE, FALSE)

Configs ==
    { [argKind |-> k, src |-> s, pkg |-> p, cpuOnly |-> c, memOnly |-> m,
       dash |-> d, cpuOutFile |-> co, memOutFile |-> mo] :
        k \in {"missing", "file", "dir"},
        s \in {Unparseable, HelperOnly, MethodMain, FuncMain},
        p \in Packages \cup {NoPkg},
        c \in BOOLEAN, m \in BOOLEAN, d \in BOOLEAN,
        co \in {"", "/out/cpu.prof"}, mo \in {"", "/out/mem.prof"} }

\* variant of enableCPU that reads -cpu as "CPU only when -mem is absent"
EnableCPUExclusive(c) == (c.cpuOnly /\ ~c.memOnly) \/ (~c.memOnly /\ ~c.cpuOnly)

\* main, "Determine profiling modes" and "Set default profile names"
EnableCPU(c) == c.cpuOnly \/ (~c.memOnly /\ ~c.cpuOnly)
EnableMem(c) == c.memOnly \/ (~c.memOnly /\ ~c.cpuOnly)
CpuOut(c) ==
    IF c.cpuOutFile = "" /\ (EnableCPU(c) \/ (~c.memOnly /\ ~c.cpuOnly))
    THEN "cpu.prof" ELSE c.cpuOutFile
MemOut(c) ==
    IF c.memOutFile = "" /\ (EnableMem(c) \/ (~c.memOnly /\ ~c.cpuOnly))
    THEN "mem.prof" ELSE c.memOutFile

InitialFs(c) ==
    IF c.argKind = "file"
    THEN [q \in {Path("cwd", "main.go")} |-> File("orig", "main.go")]
    ELSE IF c.argKind = "dir"
    THEN [q \in {Path("pkg", n) : n \in Range(c.pkg.files)}
                \cup (IF c.pkg.gomod THEN {Path("pkg", "go.mod")} ELSE {})
                \cup (IF c.pkg.gosum THEN {Path("pkg", "go.sum")} ELSE {})
            |-> File("orig", q.name)]
    ELSE [q \in {} |-> File("orig", "")]

NoHist == [tmpCreated |-> FALSE, dirCreated |-> FALSE, dashStarted |-> FALSE,
           tidyRuns |-> 0, goRuns |-> 0]

DriverInit ==
    /\ cfg \in Configs
    /\ (cfg.argKind = "dir") <=> (cfg.pkg # NoPkg)
    /\ cfg.argKind # "file" => cfg.src = Unparseable
    /\ pc = "main"
    /\ status = "running"
    /\ fs = InitialFs(cfg)
    /\ node = "nil"
    /\ mainFile = ""
    /\ ci = 1
    /\ tempFiles = {}
    /\ sub = "none"
    /\ dash = "off"
    /\ ctx = "none"
    /\ sig = FALSE
    /\ analysis = "pending"
    /\ retErr = "none"
    /\ summary = {}
    /\ hist = NoHist

\* the values of the driver's variables in the specifications that do not
\* run the driver
DriverIdle ==
    /\ cfg = [argKind |-> "missing", src |-> Unparseable, pkg |-> NoPkg,
              cpuOnly |-> FALSE, memOnly |-> FALSE, dash |-> FALSE,
              cpuOutFile |-> "", memOutFile |-> ""]
    /\ pc = "done"
    /\ status = "exit1"
    /\ fs = InitialFs(cfg)
    /\ node = "nil"
    /\ mainFile = ""
    /\ ci = 1
    /\ tempFiles = {}
    /\ sub = "none"
    /\ dash = "off"
    /\ ctx = "none"
    /\ sig = FALSE
    /\ analysis = "pending"
    /\ retErr = "none"
    /\ summary = {}
    /\ hist = NoHist

\* processGoFile up to its two early returns: the parse error and the
\* missing main function
ProcessGoFileErr(tree) ==
    IF ~tree.parses THEN "parse"
    ELSE IF ~HasMainFunction(tree) THEN "nomain"
    ELSE "nil"

\* the source processGoFile is given: the argument in single-file mode, the
\* entry file in package mode (a path that names no file does not parse)
SourceOf(c, mf) ==
    IF c.argKind = "file" THEN c.src
    ELSE IF mf \in DOMAIN c.pkg.content THEN c.pkg.content[mf]
    ELSE Unparseable

\* variant of main that goes on after an error
OnErrorIgnored(err, next) == next

\* main: `if err != nil { log.Fatal(err) }` after each step
OnError(err, next) == IF err # "nil" THEN "fatal" ELSE next

Goto(next) ==
    IF next = "fatal"
    THEN pc' = "done" /\ status' = "exit1"
    ELSE pc' = next /\ UNCHANGED status

Running(at) == status = "running" /\ pc = at

\* os.Stat(arg)
MainStat ==
    /\ UNCHANGED nondriver
    /\ Running("main")
    /\ Goto(OnError(IF cfg.argKind = "missing" THEN "stat" ELSE "nil",
                    IF cfg.argKind = "dir" THEN "discover" ELSE "process"))
    /\ UNCHANGED <<cfg, fs, node, mainFile, ci, tempFiles, sub, dash, ctx, sig,
                   analysis, retErr, summary, hist>>

\* discoverPackage: `go list` succeeds and names a main package, or not
MainDiscover ==
    /\ UNCHANGED nondriver
    /\ Running("discover")
    /\ \E err \in {"nil", "golist"} : Goto(OnError(err, "find"))
    /\ UNCHANGED <<cfg, fs, node, mainFile, ci, tempFiles, sub, dash, ctx, sig,
                   analysis, retErr, summary, hist>>

MainFind ==
    /\ UNCHANGED nondriver
    /\ Running("find")
    /\ LET r == FindMainFile(cfg.pkg.files, cfg.pkg.content)
       IN  /\ mainFile' = r.path
           /\ analysis' = r.err
           /\ Goto(OnError(r.err, "process"))
    /\ UNCHANGED <<cfg, fs, node, ci, tempFiles, sub, dash, ctx, sig,
                   retErr, summary, hist>>

MainProcess ==
    /\ UNCHANGED nondriver
    /\ Running("process")
    /\ LET err == ProcessGoFileErr(SourceOf(cfg, mainFile))
       IN  /\ analysis' = IF analysis \in {"pending", "nil"} THEN err ELSE analysis
           /\ node' = IF err = "nil" THEN "tree" ELSE "nil"
           /\ Goto(OnError(err, IF cfg.argKind = "dir"
                                THEN "pkg_mkdir" ELSE "wae_create"))
    /\ UNCHANGED <<cfg, fs, mainFile, ci, tempFiles, sub, dash, ctx, sig,
                   retErr, summary, hist>>

\* variant of main without `if err != nil { log.Fatal(err) }` after the run
ExitStatusZero(err) == "exit0"

\* the status main ends with: log.Fatal on an error, else the return of main
ExitStatus(err) == IF err = "nil" THEN "exit0" ELSE "exit1"

\* main after writeAndExecute / writeAndExecutePackage returned
MainExit ==
    /\ UNCHANGED nondriver
    /\ Running("returned")
    /\ pc' = "done"
    /\ status' = ExitStatus(retErr)
    /\ UNCHANGED <<cfg, fs, node, mainFile, ci, tempFiles, sub, dash, ctx, sig,
                   analysis, retErr, summary, hist>>

\* the summary printed after a successful run
Summary(c) ==
    IF EnableCPU(c) /\ EnableMem(c) THEN {CpuOut(c), MemOut(c)}
    ELSE IF EnableMem(c) THEN {MemOut(c)}
    ELSE {CpuOut(c)}

\* variant of instrumentMainFunction that injects both blocks in every plan
ArtifactsBoth(c, d) ==
    {Resolve(d, IF CpuOut(c) = "" THEN "cpu.prof" ELSE CpuOut(c)),
     Resolve(d, IF MemOut(c) = "" THEN "mem.prof" ELSE MemOut(c))}

\* the instrumented program opens its output files with os.Create, relative
\* to the directory it runs in
Artifacts(c, d) ==
    (IF EnableCPU(c) THEN {Resolve(d, CpuOut(c))} ELSE {})
    \cup (IF EnableMem(c) THEN {Resolve(d, MemOut(c))} ELSE {})

\* the directory the subprocess runs in: cmd.Dir of writeAndExecutePackage,
\* the driver's own directory in writeAndExecute
SubprocessDir(k) == IF k = "dir" THEN "overlay" ELSE "cwd"

WithArtifacts(f, c) ==
    [q \in (DOMAIN f) \cup Artifacts(c, SubprocessDir(c.argKind)) |->
        IF q \in Artifacts(c, SubprocessDir(c.argKind))
        THEN File("prof", q.name) ELSE f[q]]

\* the subprocess ends: the build fails, the program fails after it has
\* opened its output files, or the program ends with status 0
SubExit ==
    /\ UNCHANGED nondriver
    /\ sub = "running"
    /\ \E outcome \in {"build", "crash", "ok"} :
        /\ sub' = IF outcome = "ok" THEN "exit0" ELSE "exit1"
        /\ fs' = IF outcome = "build" THEN fs ELSE WithArtifacts(fs, cfg)
    /\ UNCHANGED <<cfg, pc, status, node, mainFile, ci, tempFiles, dash, ctx,
                   sig, analysis, retErr, summary, hist>>

(***************************************************************************)
(* writeAndExecute                                                         *)
(***************************************************************************)
\* a return of writeAndExecute: the deferred dashboardStop cancels the
\* context when it was created
Return(e) ==
    /\ pc' = "returned"
    /\ retErr' = e
    /\ ctx' = IF ctx = "active" THEN "done" ELSE ctx

WaeCreate ==
    /\ UNCHANGED nondriver
    /\ Running("wae_create")
    /\ IF node = "nil"
       THEN Return("nilast") /\ UNCHANGED <<fs, hist>>
       ELSE \E ok \in BOOLEAN :
              IF ok
              THEN /\ fs' = Put(fs, TempFile, File("empty", "main.go"))
                   /\ hist' = [hist EXCEPT !.tmpCreated = TRUE]
                   /\ pc' = "wae_print"
                   /\ UNCHANGED <<retErr, ctx>>
              ELSE Return("create") /\ UNCHANGED <<fs, hist>>
    /\ UNCHANGED <<cfg, status, node, mainFile, ci, tempFiles, sub, dash, sig,
                   analysis, summary>>

WaePrint ==
    /\ UNCHANGED nondriver
    /\ Running("wae_print")
    /\ \E ok \in BOOLEAN :
          IF ok
          THEN /\ fs' = Put(fs, TempFile, File("instr", "main.go"))
               /\ pc' = IF cfg.dash THEN "wae_dash" ELSE "wae_run"
               /\ UNCHANGED <<retErr, ctx>>
          ELSE Return("print") /\ UNCHANGED fs
    /\ UNCHANGED <<cfg, status, node, mainFile, ci, tempFiles, sub, dash, sig,
                   analysis, summary, hist>>

\* signal.NotifyContext, `go startDashboardServer`, the one second sleep
WaeDash ==
    /\ UNCHANGED nondriver
    /\ Running("wae_dash")
    /\ ctx' = "active"
    /\ dash' = "starting"
    /\ hist' = [hist EXCEPT !.dashStarted = TRUE]
    /\ pc' = "wae_run"
    /\ UNCHANGED <<cfg, status, fs, node, mainFile, ci, tempFiles, sub, sig,
                   analysis, retErr, summary>>

\* cmd.Run starts `go run <tempFile>`, or fails to start it
WaeRun ==
    /\ UNCHANGED nondriver
    /\ Running("wae_run")
    /\ hist' = [hist EXCEPT !.goRuns = @ + 1]
    /\ \E ok \in BOOLEAN :
          IF ok
          THEN sub' = "running" /\ pc' = "wae_wait" /\ UNCHANGED <<retErr, ctx>>
          ELSE sub' = "spawnfail" /\ Return("exec")
    /\ UNCHANGED <<cfg, status, fs, node, mainFile, ci, tempFiles, dash, sig,
                   analysis, summary>>

\* variant without the wait on dashboardCtx.Done()
AfterRunNoWait(web, block, rest) == rest

\* where the driver goes after a successful run: "Keep dashboard running
\* after program completion if requested"
AfterRun(web, block, rest) == IF web THEN block ELSE rest

\* cmd.Run returns: the error return, or the summary
WaeWait ==
    /\ UNCHANGED nondriver
    /\ Running("wae_wait")
    /\ sub \in {"exit0", "exit1"}
    /\ IF sub = "exit1"
       THEN Return("exec") /\ UNCHANGED summary
       ELSE /\ summary' = Summary(cfg)
            /\ pc' = AfterRun(cfg.dash, "wae_block", "wae_cleanup")
            /\ UNCHANGED <<retErr, ctx>>
    /\ UNCHANGED <<cfg, status, fs, node, mainFile, ci, tempFiles, sub, dash,
                   sig, analysis, hist>>

\* <-dashboardCtx.Done()
WaeBlock ==
    /\ UNCHANGED nondriver
    /\ Running("wae_block")
    /\ ctx = "done"
    /\ pc' = "wae_cleanup"
    /\ UNCHANGED <<cfg, status, fs, node, mainFile, ci, tempFiles, sub, dash,
                   ctx, sig, analysis, retErr, summary, hist>>

\* os.Remove(tempFile); return nil
WaeCleanup ==
    /\ UNCHANGED nondriver
    /\ Running("wae_cleanup")
    /\ fs' = Remove(fs, TempFile)
    /\ Return("nil")
    /\ UNCHANGED <<cfg, status, node, mainFile, ci, tempFiles, sub, dash, sig,
                   analysis, summary, hist>>

(***************************************************************************)
(* writeAndExecutePackage                                                  *)
(***************************************************************************)
\* variant that removes the overlay at the end of the success path only
PkgDeferredOnSuccessOnly(f, e) == IF e = "nil" THEN RemoveAll(f, "overlay") ELSE f

\* the deferred calls of writeAndExecutePackage, run at every return after
\* MkdirTemp succeeded: os.RemoveAll(tempDir)
PkgDeferred(f, e) == RemoveAll(f, "overlay")

PkgReturn(f, e) == Return(e) /\ fs' = PkgDeferred(f, e)

\* filepath.Ext(name) == ".go"
GoExt(n) == n \in {"main.go", "util.go", "lib.go", "a.go", "b.go", "c.go", "d.go"}

PkgMkdir ==
    /\ UNCHANGED nondriver
    /\ Running("pkg_mkdir")
    /\ \E ok \in BOOLEAN :
          IF ok
          THEN /\ fs' = Put(fs, OverlayDir, File("dir", "."))
               /\ hist' = [hist EXCEPT !.dirCreated = TRUE]
               /\ pc' = "pkg_create"
               /\ UNCHANGED <<retErr, ctx>>
          ELSE Return("mkdir") /\ UNCHANGED <<fs, hist>>
    /\ UNCHANGED <<cfg, status, node, mainFile, ci, tempFiles, sub, dash, sig,
                   analysis, summary>>

\* os.Create(tempMainFile)
PkgCreate ==
    /\ UNCHANGED nondriver
    /\ Running("pkg_create")
    /\ \E ok \in BOOLEAN :
          IF ok /\ node # "nil"
          THEN /\ fs' = Put(fs, Path("overlay", mainFile), File("empty", mainFile))
               /\ pc' = "pkg_print"
               /\ UNCHANGED <<retErr, ctx>>
          ELSE PkgReturn(fs, "create")
    /\ UNCHANGED <<cfg, status, node, mainFile, ci, tempFiles, sub, dash, sig,
                   analysis, summary, hist>>

\* printer.Fprint(out, fset, node)
PkgPrint ==
    /\ UNCHANGED nondriver
    /\ Running("pkg_print")
    /\ \E ok \in BOOLEAN :
          IF ok
          THEN /\ fs' = Put(fs, Path("overlay", mainFile), File("instr", mainFile))
               /\ pc' = "pkg_copy"
               /\ UNCHANGED <<retErr, ctx>>
          ELSE PkgReturn(fs, "print")
    /\ UNCHANGED <<cfg, status, node, mainFile, ci, tempFiles, sub, dash, sig,
                   analysis, summary, hist>>

\* one iteration of "Copy all other package files"
PkgCopy ==
    /\ UNCHANGED nondriver
    /\ Running("pkg_copy")
    /\ IF ci > Len(cfg.pkg.files)
       THEN pc' = "pkg_gomod" /\ UNCHANGED <<fs, ci, retErr, ctx>>
       ELSE LET file == cfg.pkg.files[ci]
            IN  IF file = mainFile
                THEN /\ ci' = ci + 1
                     /\ UNCHANGED <<pc, fs, retErr, ctx>>
                ELSE \E outcome \in {"ok", "read", "write"} :
                       IF outcome = "ok"
                       THEN /\ fs' = Put(fs, Path("overlay", file),
                                         fs[Path("pkg", file)])
                            /\ ci' = ci + 1
                            /\ UNCHANGED <<pc, retErr, ctx>>
                       ELSE PkgReturn(fs, outcome) /\ UNCHANGED ci
    /\ UNCHANGED <<cfg, status, node, mainFile, tempFiles, sub, dash, sig,
                   analysis, summary, hist>>

\* variant of writeAndExecutePackage that copies no manifest file
CopyManifestNever(name, next) == pc' = next /\ UNCHANGED <<fs, retErr, ctx>>

\* copy of a manifest file when os.Stat finds it next to the entry file
CopyManifest(name, next) ==
    IF Path("pkg", name) \in DOMAIN fs
    THEN \E outcome \in {"ok", "read", "write"} :
           IF outcome = "ok"
           THEN /\ fs' = Put(fs, Path("overlay", name), fs[Path("pkg", name)])
                /\ pc' = next
                /\ UNCHANGED <<retErr, ctx>>
           ELSE PkgReturn(fs, outcome)
    ELSE pc' = next /\ UNCHANGED <<fs, retErr, ctx>>

PkgGoMod ==
    /\ UNCHANGED nondriver
    /\ Running("pkg_gomod")
    /\ CopyManifest("go.mod", "pkg_gosum")
    /\ UNCHANGED <<cfg, status, node, mainFile, ci, tempFiles, sub, dash, sig,
                   analysis, summary, hist>>

PkgGoSum ==
    /\ UNCHANGED nondriver
    /\ Running("pkg_gosum")
    /\ CopyManifest("go.sum", "pkg_readdir")
    /\ UNCHANGED <<cfg, status, node, mainFile, ci, tempFiles, sub, dash, sig,
                   analysis, summary, hist>>

\* os.ReadDir(tempDir) and the selection of the .go files
PkgReadDir ==
    /\ UNCHANGED nondriver
    /\ Running("pkg_readdir")
    /\ \E ok \in BOOLEAN :
          IF ok
          THEN /\ tempFiles' = {q.name : q \in {r \in DOMAIN fs :
                                    r.dir = "overlay" /\ GoExt(r.name)}}
               /\ pc' = "pkg_tidy"
               /\ UNCHANGED <<fs, retErr, ctx>>
          ELSE PkgReturn(fs, "readdir") /\ UNCHANGED tempFiles
    /\ UNCHANGED <<cfg, status, node, mainFile, ci, sub, dash, sig,
                   analysis, summary, hist>>

\* variant of writeAndExecutePackage that never runs `go mod tidy`
TidyNeededNever(f) == FALSE

\* os.Stat(filepath.Join(tempDir, "go.mod")) finds the file
TidyNeeded(f) == Path("overlay", "go.mod") \in DOMAIN f

\* "Download dependencies if go.mod exists": `go mod tidy` in the overlay;
\* a successful tidy may write go.sum
PkgTidy ==
    /\ UNCHANGED nondriver
    /\ Running("pkg_tidy")
    /\ LET next == IF cfg.dash THEN "pkg_dash" ELSE "pkg_run"
       IN  IF TidyNeeded(fs)
           THEN /\ hist' = [hist EXCEPT !.tidyRuns = @ + 1]
                /\ \E outcome \in {"ok", "oksum", "fail"} :
                     IF outcome = "fail"
                     THEN PkgReturn(fs, "tidy")
                     ELSE /\ fs' = IF outcome = "oksum"
                                   THEN Put(fs, Path("overlay", "go.sum"),
                                            File("tidy", "go.sum"))
                                   ELSE fs
                          /\ pc' = next
                          /\ UNCHANGED <<retErr, ctx>>
           ELSE pc' = next /\ UNCHANGED <<fs, hist, retErr, ctx>>
    /\ UNCHANGED <<cfg, status, node, mainFile, ci, tempFiles, sub, dash, sig,
                   analysis, summary>>

PkgDash ==
    /\ UNCHANGED nondriver
    /\ Running("pkg_dash")
    /\ ctx' = "active"
    /\ dash' = "starting"
    /\ hist' = [hist EXCEPT !.dashStarted = TRUE]
    /\ pc' = "pkg_run"
    /\ UNCHANGED <<cfg, status, fs, node, mainFile, ci, tempFiles, sub, sig,
                   analysis, retErr, summary>>

\* cmd.Run starts `go run <tempFiles>` in the overlay, or fails to start it
PkgRun ==
    /\ UNCHANGED nondriver
    /\ Running("pkg_run")
    /\ hist' = [hist EXCEPT !.goRuns = @ + 1]
    /\ \E ok \in BOOLEAN :
          IF ok
          THEN /\ sub' = "running"
               /\ pc' = "pkg_wait"
               /\ UNCHANGED <<fs, retErr, ctx>>
          ELSE sub' = "spawnfail" /\ PkgReturn(fs, "exec")
    /\ UNCHANGED <<cfg, status, node, mainFile, ci, tempFiles, dash, sig,
                   analysis, summary>>

PkgWait ==
    /\ UNCHANGED nondriver
    /\ Running("pkg_wait")
    /\ sub \in {"exit0", "exit1"}
    /\ IF sub = "exit1"
       THEN PkgReturn(fs, "exec") /\ UNCHANGED summary
       ELSE /\ summary' = Summary(cfg)
            /\ pc' = AfterRun(cfg.dash, "pkg_block", "pkg_done")
            /\ UNCHANGED <<fs, retErr, ctx>>
    /\ UNCHANGED <<cfg, status, node, mainFile, ci, tempFiles, sub, dash,
                   sig, analysis, hist>>

PkgBlock ==
    /\ UNCHANGED nondriver
    /\ Running("pkg_block")
    /\ ctx = "done"
    /\ pc' = "pkg_done"
    /\ UNCHANGED <<cfg, status, fs, node, mainFile, ci, tempFiles, sub, dash,
                   ctx, sig, analysis, retErr, summary, hist>>

\* return nil
PkgDone ==
    /\ UNCHANGED nondriver
    /\ Running("pkg_done")
    /\ PkgReturn(fs, "nil")
    /\ UNCHANGED <<cfg, status, node, mainFile, ci, tempFiles, sub, dash, sig,
                   analysis, summary, hist>>

(***************************************************************************)
(* startDashboardServer and the interrupt signal                           *)
(***************************************************************************)
\* server.ListenAndServe binds the port, or fails and log.Fatalf ends the
\* driver process
DashListen ==
    /\ UNCHANGED nondriver
    /\ status = "running"
    /\ dash = "starting"
    /\ \E ok \in BOOLEAN :
          IF ok
          THEN dash' = "listening" /\ UNCHANGED status
          ELSE dash' = "failed" /\ status' = "exit1"
    /\ UNCHANGED <<cfg, pc, fs, node, mainFile, ci, tempFiles, sub, ctx, sig,
                   analysis, retErr, summary, hist>>

\* <-ctx.Done(); server.Shutdown
DashShutdown ==
    /\ UNCHANGED nondriver
    /\ status = "running"
    /\ dash \in {"starting", "listening"}
    /\ ctx = "done"
    /\ dash' = "closed"
    /\ UNCHANGED <<cfg, pc, status, fs, node, mainFile, ci, tempFiles, sub, ctx,
                   sig, analysis, retErr, summary, hist>>

\* os.Interrupt reaches the driver while signal.NotifyContext is registered
Interrupt ==
    /\ UNCHANGED nondriver
    /\ status = "running"
    /\ ctx = "active"
    /\ ctx' = "done"
    /\ sig' = TRUE
    /\ UNCHANGED <<cfg, pc, status, fs, node, mainFile, ci, tempFiles, sub, dash,
                   analysis, retErr, summary, hist>>

DriverNext ==
    \/ MainStat \/ MainDiscover \/ MainFind \/ MainProcess \/ MainExit
    \/ SubExit
    \/ WaeCreate \/ WaePrint \/ WaeDash \/ WaeRun \/ WaeWait \/ WaeBlock
    \/ WaeCleanup
    \/ PkgMkdir \/ PkgCreate \/ PkgPrint \/ PkgCopy \/ PkgGoMod \/ PkgGoSum
    \/ PkgReadDir \/ PkgTidy \/ PkgDash \/ PkgRun \/ PkgWait \/ PkgBlock
    \/ PkgDone
    \/ DashListen \/ DashShutdown \/ Interrupt


(***************************************************************************)
(* The metrics file, the relay and the /metrics handler.  File contents    *)
(* are kept by their form; ts2 is timestampMs in half milliseconds, so     *)
(* that a timestamp with a fraction (a JSON number is a float64) can be    *)
(* told from a whole one; seq tells the snapshots of the relay apart.      *)
(***************************************************************************)
Bytes(f, t, k) == [form |-> f, ts2 |-> t, seq |-> k]

Absent      == Bytes("absent", 0, 0)     \* no file of that name
EmptyBytes  == Bytes("empty", 0, 0)      \* a file of length zero
EmptyObject == Bytes("emptyobj", 0, 0)   \* the two bytes {}
NullBytes   == Bytes("null", 0, 0)       \* the JSON value null
ArrayBytes  == Bytes("array", 0, 0)      \* a JSON array
StringTs    == Bytes("strts", 0, 0)      \* an object whose timestampMs is a string

Snapshot(t, k) == Bytes("snap", 2 * t, k)
Partial(b) == Bytes("partial", b.ts2, b.seq)  \* a proper prefix of a snapshot

StaleMs == 2000
StartTime == 5000
MaxTicks == 3
MaxSnaps == 2
Steps == {1000, 1001}

\* variant of json.Unmarshal that accepts the prefix of an object
UnmarshalLenient(b) ==
    [err   |-> b.form \in {"empty", "array"},
     hasTs |-> b.form \in {"snap", "strts"},
     isNum |-> b.form = "snap",
     ts2   |-> b.ts2]

\* json.Unmarshal(data, &metrics) into a map[string]any, and the two type
\* tests on metrics["timestampMs"]
Unmarshal(b) ==
    [err   |-> b.form \in {"empty", "partial", "array"},
     hasTs |-> b.form \in {"snap", "strts"},
     isNum |-> b.form = "snap",
     ts2   |-> b.ts2]

\* int64(ts) of a float64: the fraction is cut off, toward zero
Int64(t2) == IF t2 >= 0 THEN t2 \div 2 ELSE -((-t2) \div 2)

Response(st, b) == [status |-> st, body |-> b]

\* variants of the handler: an error status for a missing file, no
\* staleness test, a staleness test that also drops the boundary
MetricsResponseNotFound(data, readErr, t) ==
    IF readErr THEN Response(404, EmptyObject)
    ELSE Response(200, data)

MetricsResponseNoStaleness(data, readErr, t) ==
    IF readErr THEN Response(200, EmptyObject)
    ELSE IF Unmarshal(data).err THEN Response(200, EmptyObject)
    ELSE Response(200, data)

MetricsResponseStaleAtBoundary(data, readErr, t) ==
    IF readErr THEN Response(200, EmptyObject)
    ELSE LET m == Unmarshal(data)
         IN  IF m.err THEN Response(200, EmptyObject)
             ELSE IF m.hasTs /\ m.isNum /\ t - Int64(m.ts2) >= StaleMs
                  THEN Response(200, EmptyObject)
                  ELSE Response(200, data)

\* the /metrics handler after os.ReadFile: readErr is its error, t is
\* time.Now().UnixMilli()
MetricsResponse(data, readErr, t) ==
    IF readErr THEN Response(200, EmptyObject)
    ELSE LET m == Unmarshal(data)
         IN  IF m.err THEN Response(200, EmptyObject)
             ELSE IF m.hasTs /\ m.isNum /\ t - Int64(m.ts2) > StaleMs
                  THEN Response(200, EmptyObject)
                  ELSE Response(200, data)

\* the directory whose peep_metrics.json the relay writes (the directory the
\* instrumented program runs in) and the one the handler reads (the
\* driver's own)
RelayDir == SubprocessDir(runMode)
HandlerDir == "cwd"

\* what may lie in the driver's directory before the run: nothing, the last
\* snapshot of an earlier run, or a file some other program left there
Leftovers ==
    {Absent, Snapshot(StartTime - 3000, 0),
     Bytes("snap", 2 * StartTime + 1, 0), NullBytes, ArrayBytes, StringTs}

NoReq == [pc |-> "idle", data |-> Absent, readErr |-> FALSE, saw |-> Absent]
NoResp == [status |-> 0, body |-> Absent, at |-> 0, data |-> Absent,
           readErr |-> FALSE, saw |-> Absent]
RelayStart == [pc |-> "wait", data |-> Absent, fd |-> "none", seq |-> 0]

MetricsInit ==
    /\ runMode \in {"file", "dir"}
    /\ now = StartTime
    /\ ticks = 0
    /\ \E left \in Leftovers :
          disk = [d \in {"cwd", "overlay"} |-> IF d = "cwd" THEN left ELSE Absent]
    /\ relay = RelayStart
    /\ prog = "running"
    /\ lastTs = -1
    /\ req = NoReq
    /\ resp = NoResp

MetricsIdle ==
    /\ runMode = "file"
    /\ now = StartTime
    /\ ticks = 0
    /\ disk = [d \in {"cwd", "overlay"} |-> Absent]
    /\ relay = RelayStart
    /\ prog = "running"
    /\ lastTs = -1
    /\ req = NoReq
    /\ resp = NoResp

\* the clock advances
\* the instrumented program is a live process: its goroutines run until the
\* process ends, also after main has returned and its deferred calls ran
Alive == prog \in {"running", "returned"}

Tick ==
    /\ UNCHANGED nonmetrics
    /\ ticks < MaxTicks
    /\ \E d \in Steps : now' = now + d
    /\ ticks' = ticks + 1
    /\ UNCHANGED <<runMode, disk, relay, prog, lastTs, req, resp>>

\* a tick of the relay: the metrics map with time.Now().UnixMilli(), and
\* json.Marshal
RelaySample ==
    /\ UNCHANGED nonmetrics
    /\ Alive
    /\ relay.pc = "wait"
    /\ relay.seq < MaxSnaps
    /\ relay' = [relay EXCEPT !.pc = "sampled", !.seq = @ + 1,
                              !.data = Snapshot(now, relay.seq + 1)]
    /\ UNCHANGED <<runMode, now, ticks, disk, prog, lastTs, req, resp>>

\* os.WriteFile opens the file with O_CREATE|O_TRUNC
RelayOpen ==
    /\ UNCHANGED nonmetrics
    /\ Alive
    /\ relay.pc = "sampled"
    /\ disk' = [disk EXCEPT ![RelayDir] = EmptyBytes]
    /\ relay' = [relay EXCEPT !.pc = "opened", !.fd = "linked"]
    /\ UNCHANGED <<runMode, now, ticks, prog, lastTs, req, resp>>

\* os.WriteFile writes the data, in one write or in two; a file removed
\* while it is open is written to without coming back under its name
RelayWrite ==
    /\ UNCHANGED nonmetrics
    /\ Alive
    /\ relay.pc \in {"opened", "partial"}
    /\ \E whole \in BOOLEAN :
          /\ ~whole => relay.pc = "opened"
          /\ disk' = IF relay.fd = "linked"
                     THEN [disk EXCEPT ![RelayDir] =
                              IF whole THEN relay.data ELSE Partial(relay.data)]
                     ELSE disk
          /\ relay' = IF whole
                      THEN [relay EXCEPT !.pc = "wait", !.fd = "none"]
                      ELSE [relay EXCEPT !.pc = "partial"]
          /\ lastTs' = IF whole /\ relay.fd = "linked"
                       THEN Int64(relay.data.ts2) ELSE lastTs
    /\ UNCHANGED <<runMode, now, ticks, prog, req, resp>>

\* the entry point returns: the deferred os.Remove(metricsFile)
ProgReturn ==
    /\ UNCHANGED nonmetrics
    /\ prog = "running"
    /\ prog' = "returned"
    /\ disk' = [disk EXCEPT ![RelayDir] = Absent]
    /\ relay' = IF relay.fd = "linked" THEN [relay EXCEPT !.fd = "unlinked"]
                ELSE relay
    /\ UNCHANGED <<runMode, now, ticks, lastTs, req, resp>>

\* the process ends after the entry point returned ("ended"), or is ended
\* without running its deferred calls: os.Exit, log.Fatal, a signal
\* ("exited")
ProgExit ==
    /\ UNCHANGED nonmetrics
    /\ Alive
    /\ prog' = IF prog = "returned" THEN "ended" ELSE "exited"
    /\ UNCHANGED <<runMode, now, ticks, disk, relay, lastTs, req, resp>>

\* the handler's os.ReadFile("peep_metrics.json")
HandlerRead ==
    /\ UNCHANGED nonmetrics
    /\ req.pc = "idle"
    /\ req' = [pc |-> "read", data |-> disk[HandlerDir],
               readErr |-> disk[HandlerDir] = Absent, saw |-> disk[RelayDir]]
    /\ resp' = NoResp
    /\ UNCHANGED <<runMode, now, ticks, disk, relay, prog, lastTs>>

\* the rest of the handler: parse, staleness test, response
HandlerRespond ==
    /\ UNCHANGED nonmetrics
    /\ req.pc = "read"
    /\ LET r == MetricsResponse(req.data, req.readErr, now)
       IN  resp' = [status |-> r.status, body |-> r.body, at |-> now,
                    data |-> req.data, readErr |-> req.readErr, saw |-> req.saw]
    /\ req' = NoReq
    /\ UNCHANGED <<runMode, now, ticks, disk, relay, prog, lastTs>>

MetricsNext ==
    \/ Tick \/ RelaySample \/ RelayOpen \/ RelayWrite \/ ProgReturn \/ ProgExit
    \/ HandlerRead \/ HandlerRespond

\* SpecRuns at rest
MaxRuns == 2
RunIds == 1..MaxRuns
TempName == "main_prof.go"
DirNames == {"peep-pkg-1", "peep-pkg-2", "peep-pkg-3"}
NoEntry == -1    \* no entry of that name
Leftover == 0    \* an entry an earlier run, now dead, left behind

RunsIdle ==
    /\ runs = [r \in RunIds |-> [mode |-> "file", pc |-> "returned", dir |-> ""]]
    /\ tmpdir = [n \in {TempName} \cup DirNames |-> NoEntry]
    /\ clash = {}

\* SpecTree at rest
NoPlan == [cpu |-> FALSE, mem |-> FALSE, web |-> FALSE]
NoFlags == [cpuOnly |-> FALSE, memOnly |-> FALSE, dash |-> FALSE]
NoImp == [pkg |-> "", prev |-> "", before |-> <<>>, calls |-> 0]

TreeIdle ==
    /\ flags = NoFlags
    /\ plan = NoPlan
    /\ orig = Unparseable
    /\ ast = Unparseable
    /\ tpc = "idle"
    /\ gen = <<>>
    /\ hasMain = "unknown"
    /\ perr = "pending"
    /\ imp = NoImp

(***************************************************************************)
(* SpecPure                                                                *)
(***************************************************************************)
MaxFiles == 3
FileNames == {"a.go", "b.go", "c.go", "d.go"}

\* the lists main hands over come from `go list` (GoFiles, then CgoFiles):
\* the names of one directory, each at most once
FileLists ==
    {s \in UNION {[1..n -> FileNames] : n \in 0..MaxFiles} :
        \A i, j \in DOMAIN s : i # j => s[i] # s[j]}

PureIdle ==
    /\ files = <<>>
    /\ parsed = [f \in FileNames |-> Unparseable]
    /\ found = NoResult

PureInit ==
    /\ DriverIdle
    /\ MetricsIdle
    /\ TreeIdle
    /\ RunsIdle
    /\ files \in FileLists
    /\ parsed \in [FileNames -> FileContents]
    /\ \A f \in FileNames \ Range(files) : parsed[f] = Unparseable
    /\ found = NoResult

PureFindMainFile ==
    /\ found = NoResult
    /\ found' = FindMainFile(files, parsed)
    /\ UNCHANGED <<files, parsed>>
    /\ UNCHANGED nonpure

PureNext == PureFindMainFile

SpecPure == PureInit /\ [][PureNext]_vars

(***************************************************************************)
(* SpecTree: the plan of main, processGoFile and addImportIfMissing        *)
(***************************************************************************)
MaxImports == 2
MaxDecls == 2
MaxCalls == 2

RequiredImports == {"os", "log", "runtime/pprof"}
DashboardImports == {"runtime", "time", "encoding/json",
                     "github.com/shirou/gopsutil/v3/cpu"}
ImportPaths == {"fmt"} \cup RequiredImports \cup DashboardImports

\* an import list may name a path more than once (a second import of the
\* same package under another name)
ImportLists == UNION {[1..n -> ImportPaths] : n \in 0..MaxImports}

DeclKinds == {Decl(n, r) : n \in {"main", "helper"}, r \in BOOLEAN}
DeclLists == UNION {[1..n -> DeclKinds] : n \in 0..MaxDecls}

\* declarations whose bodies differ, for the direct calls of
\* instrumentMainFunction
UserStmt2 == Stmt("user2", "", NoVar, NoVar)
Bodies == {<<>>, <<UserStmt>>, <<UserStmt2, UserStmt>>}
BodyDeclKinds ==
    {[name |-> n, recv |-> r, body |-> b] :
        n \in {"main", "helper"}, r \in BOOLEAN, b \in Bodies}
BodyDeclLists == UNION {[1..n -> BodyDeclKinds] : n \in 0..MaxDecls}
BodyTrees ==
    {[parses |-> TRUE, imports |-> <<"fmt">>, decls |-> d] : d \in BodyDeclLists}
Plans == [cpu : BOOLEAN, mem : BOOLEAN, web : BOOLEAN]

Trees ==
    {Unparseable} \cup
    {[parses |-> TRUE, imports |-> i, decls |-> d] :
        i \in ImportLists, d \in DeclLists}

\* the outcomes of rand.Read(randBytes[:]) the model tells apart
RandBytes == {<<10, 10, 10, 10>>, <<27, 205, 0, 255>>}

\* hex.EncodeToString: two lowercase digits for each byte
HexDigits == <<"0", "1", "2", "3", "4", "5", "6", "7", "8", "9",
               "a", "b", "c", "d", "e", "f">>
RECURSIVE EncodeToString(_)
EncodeToString(b) ==
    IF b = <<>> THEN <<>>
    ELSE <<HexDigits[(Head(b) \div 16) + 1], HexDigits[(Head(b) % 16) + 1]>>
         \o EncodeToString(Tail(b))

\* variant of generateUniqueVars whose error name carries no suffix
GenerateUniqueVarsBareErr(randBytes) ==
    [f |-> <<"f_">> \o EncodeToString(randBytes), e |-> <<"err_">>]

\* generateUniqueVars: "f_" + suffix and "err_" + suffix; a name is the
\* sequence of its prefix and the characters of the suffix
GenerateUniqueVars(randBytes) ==
    LET suffix == EncodeToString(randBytes)
    IN  [f |-> <<"f_">> \o suffix, e |-> <<"err_">> \o suffix]

\* the identifiers a statement declares in the scope it is put in: the
\* left-hand sides of the := statements
Declares(st) ==
    IF st.op = "os.Create" THEN {st.fvar, st.evar}
    ELSE IF st.op = "metricsFile :=" THEN {st.fvar}
    ELSE {}

\* astutil.AddImport: nothing when the file imports the path already,
\* else the new spec is appended to f.Imports
AddImport(imports, pkg) ==
    IF pkg \in Range(imports) THEN imports ELSE Append(imports, pkg)

\* variant of addImportIfMissing without the scan of node.Imports and
\* without the test astutil.AddImport makes
AddImportAlways(imports, pkg) == Append(imports, pkg)

\* addImportIfMissing: return when some import has the path, else AddImport
AddImportIfMissing(imports, pkg) ==
    IF \E i \in DOMAIN imports : imports[i] = pkg
    THEN imports
    ELSE AddImport(imports, pkg)

\* variant of processGoFile that adds the dashboard imports in every plan
AddImportsAll(imports, web) ==
    LET a == AddImportIfMissing(imports, "os")
        b == AddImportIfMissing(a, "log")
        c == AddImportIfMissing(b, "runtime/pprof")
        d == AddImportIfMissing(c, "runtime")
        e == AddImportIfMissing(d, "time")
        f == AddImportIfMissing(e, "encoding/json")
    IN  AddImportIfMissing(f, "github.com/shirou/gopsutil/v3/cpu")

\* the imports processGoFile adds, in its order
AddImports(imports, web) ==
    LET a == AddImportIfMissing(imports, "os")
        b == AddImportIfMissing(a, "log")
        c == AddImportIfMissing(b, "runtime/pprof")
        d == AddImportIfMissing(c, "runtime")
        e == AddImportIfMissing(d, "time")
        f == AddImportIfMissing(e, "encoding/json")
        g == AddImportIfMissing(f, "github.com/shirou/gopsutil/v3/cpu")
    IN  IF web THEN g ELSE c

CreateCPUProfilingStmts(cpuFile, v) ==
    << Stmt("os.Create", cpuFile, v.f, v.e),
       Stmt("if err != nil log.Fatal", "", NoVar, v.e),
       Stmt("pprof.StartCPUProfile", "", v.f, NoVar),
       Stmt("defer pprof.StopCPUProfile", "", NoVar, NoVar) >>

CreateMemoryProfilingStmts(memFile, v) ==
    << Stmt("os.Create", memFile, v.f, v.e),
       Stmt("if err != nil log.Fatal", "", NoVar, v.e),
       Stmt("defer pprof.WriteHeapProfile Close", "", v.f, NoVar) >>

CreateMetricsCollectionStmts ==
    << Stmt("metricsFile :=", "peep_metrics.json", <<"metricsFile">>, NoVar),
       Stmt("defer os.Remove", "", <<"metricsFile">>, NoVar),
       Stmt("go relay", "", <<"metricsFile">>, NoVar) >>

\* variant of instrumentMainFunction without the fn.Recv == nil test
InstrumentMainFunctionAnyMain(t, pl, cpuVars, memVars) ==
    LET stmts ==
            (IF pl.cpu THEN CreateCPUProfilingStmts("cpu.prof", cpuVars)
                       ELSE <<>>)
            \o (IF pl.mem THEN CreateMemoryProfilingStmts("mem.prof", memVars)
                          ELSE <<>>)
            \o (IF pl.web THEN CreateMetricsCollectionStmts ELSE <<>>)
    IN  [t EXCEPT !.decls =
            [i \in DOMAIN @ |->
                IF @[i].name = "main"
                THEN [@[i] EXCEPT !.body = stmts \o @]
                ELSE @[i]]]

\* variant of instrumentMainFunction that puts the blocks after the body
InstrumentMainFunctionAppend(t, pl, cpuVars, memVars) ==
    LET stmts ==
            (IF pl.cpu THEN CreateCPUProfilingStmts("cpu.prof", cpuVars)
                       ELSE <<>>)
            \o (IF pl.mem THEN CreateMemoryProfilingStmts("mem.prof", memVars)
                          ELSE <<>>)
            \o (IF pl.web THEN CreateMetricsCollectionStmts ELSE <<>>)
    IN  [t EXCEPT !.decls =
            [i \in DOMAIN @ |->
                IF @[i].name = "main" /\ ~@[i].recv
                THEN [@[i] EXCEPT !.body = @ \o stmts]
                ELSE @[i]]]

\* instrumentMainFunction: every function declaration named main without a
\* receiver gets the enabled blocks put in front of its body
InstrumentMainFunction(t, pl, cpuVars, memVars) ==
    LET stmts ==
            (IF pl.cpu THEN CreateCPUProfilingStmts("cpu.prof", cpuVars)
                       ELSE <<>>)
            \o (IF pl.mem THEN CreateMemoryProfilingStmts("mem.prof", memVars)
                          ELSE <<>>)
            \o (IF pl.web THEN CreateMetricsCollectionStmts ELSE <<>>)
    IN  [t EXCEPT !.decls =
            [i \in DOMAIN @ |->
                IF @[i].name = "main" /\ ~@[i].recv
                THEN [@[i] EXCEPT !.body = stmts \o @]
                ELSE @[i]]]

\* a run of main up to the return of processGoFile, or direct calls of
\* addImportIfMissing, of instrumentMainFunction or of generateUniqueVars
TreeInit ==
    /\ PureIdle
    /\ DriverIdle
    /\ MetricsIdle
    /\ RunsIdle
    /\ \/ /\ tpc = "plan"
          /\ flags \in [cpuOnly : BOOLEAN, memOnly : BOOLEAN, dash : BOOLEAN]
          /\ orig \in Trees
          /\ plan = NoPlan
       \/ /\ tpc = "imports"
          /\ flags = NoFlags
          /\ orig \in {t \in Trees : t.parses /\ t.decls = FuncMain.decls}
          /\ plan = NoPlan
       \/ /\ tpc = "instrument"
          /\ flags = NoFlags
          /\ orig \in BodyTrees
          /\ plan \in Plans
       \/ /\ tpc = "generate"
          /\ flags = NoFlags
          /\ orig = Unparseable
          /\ plan = NoPlan
    /\ ast = orig
    /\ gen = <<>>
    /\ hasMain = "unknown"
    /\ perr = "pending"
    /\ imp = NoImp

\* main: the profiling modes from the flags
TreePlan ==
    /\ UNCHANGED nontree
    /\ tpc = "plan"
    /\ plan' = [cpu |-> EnableCPU(flags), mem |-> EnableMem(flags),
                web |-> flags.dash]
    /\ tpc' = "check"
    /\ UNCHANGED <<flags, orig, ast, gen, hasMain, perr, imp>>

\* processGoFile up to its second return: parse, then hasMainFunction
TreeCheck ==
    /\ UNCHANGED nontree
    /\ tpc = "check"
    /\ hasMain' = IF ~ast.parses THEN "unknown"
                  ELSE IF HasMainFunction(ast) THEN "true" ELSE "false"
    /\ perr' = IF ProcessGoFileErr(ast) = "nil" THEN "pending"
               ELSE ProcessGoFileErr(ast)
    /\ tpc' = IF ProcessGoFileErr(ast) = "nil" THEN "inject" ELSE "done"
    /\ UNCHANGED <<flags, plan, orig, ast, gen, imp>>

\* the rest of processGoFile: the imports, two calls of generateUniqueVars,
\* instrumentMainFunction
TreeInject ==
    /\ UNCHANGED nontree
    /\ tpc = "inject"
    /\ \E b1 \in RandBytes, b2 \in RandBytes :
         /\ gen' = <<[rand |-> b1, pair |-> GenerateUniqueVars(b1)],
                     [rand |-> b2, pair |-> GenerateUniqueVars(b2)]>>
         /\ ast' = InstrumentMainFunction(
                      [ast EXCEPT !.imports = AddImports(@, plan.web)],
                      plan, gen'[1].pair, gen'[2].pair)
    /\ perr' = "nil"
    /\ tpc' = "done"
    /\ UNCHANGED <<flags, plan, orig, hasMain, imp>>

\* one direct call addImportIfMissing(fset, node, pkg)
TreeAddImport ==
    /\ UNCHANGED nontree
    /\ tpc = "imports"
    /\ imp.calls < MaxCalls
    /\ \E pkg \in ImportPaths :
         /\ ast' = [ast EXCEPT !.imports = AddImportIfMissing(@, pkg)]
         /\ imp' = [pkg |-> pkg, prev |-> imp.pkg, before |-> ast.imports,
                    calls |-> imp.calls + 1]
    /\ UNCHANGED <<flags, plan, orig, tpc, gen, hasMain, perr>>

\* one direct call of instrumentMainFunction with freshly generated names
TreeInstrument ==
    /\ UNCHANGED nontree
    /\ tpc = "instrument"
    /\ \E b1 \in RandBytes, b2 \in RandBytes :
         /\ gen' = <<[rand |-> b1, pair |-> GenerateUniqueVars(b1)],
                     [rand |-> b2, pair |-> GenerateUniqueVars(b2)]>>
         /\ ast' = InstrumentMainFunction(ast, plan, gen'[1].pair, gen'[2].pair)
    /\ tpc' = "instrumented"
    /\ UNCHANGED <<flags, plan, orig, hasMain, perr, imp>>

\* one direct call of generateUniqueVars
TreeGenerate ==
    /\ UNCHANGED nontree
    /\ tpc = "generate"
    /\ Len(gen) < MaxCalls
    /\ \E b \in RandBytes :
         gen' = Append(gen, [rand |-> b, pair |-> GenerateUniqueVars(b)])
    /\ UNCHANGED <<flags, plan, orig, ast, tpc, hasMain, perr, imp>>

TreeNext ==
    \/ TreePlan \/ TreeCheck \/ TreeInject \/ TreeAddImport
    \/ TreeInstrument \/ TreeGenerate

SpecTree == TreeInit /\ [][TreeNext]_vars

(***************************************************************************)
(* SpecRuns: runs of the driver that share os.TempDir().  A run in         *)
(* single-file mode uses the fixed path <tmp>/main_prof.go, a run in       *)
(* package mode the directory os.MkdirTemp gives it.                       *)
(***************************************************************************)
Live(r) == runs[r].pc # "returned"

\* what run r does to the entry of that name: recorded when the entry was
\* created by another run that is still live
Touch(r, op, n) ==
    IF tmpdir[n] \in RunIds /\ tmpdir[n] # r /\ Live(tmpdir[n])
    THEN clash \cup {[by |-> r, op |-> op, name |-> n, of |-> tmpdir[n]]}
    ELSE clash

At(r, m, at) == runs[r].mode = m /\ runs[r].pc = at
Move(r, to) == runs' = [runs EXCEPT ![r].pc = to]

RunsInit ==
    /\ PureIdle
    /\ DriverIdle
    /\ MetricsIdle
    /\ TreeIdle
    /\ runs \in [RunIds -> {[mode |-> m, pc |-> "create", dir |-> ""] :
                              m \in {"file", "dir"}}]
    /\ \E left \in {NoEntry, Leftover} :
          tmpdir = [n \in {TempName} \cup DirNames |->
                       IF n = TempName THEN left ELSE NoEntry]
    /\ clash = {}

\* os.Create(filepath.Join(os.TempDir(), "main_prof.go")): creates the file
\* or truncates the one that is there
RunCreate ==
    /\ UNCHANGED nonruns
    /\ \E r \in RunIds :
         /\ At(r, "file", "create")
         /\ \E ok \in BOOLEAN :
              IF ok
              THEN /\ clash' = Touch(r, "overwrite", TempName)
                   /\ tmpdir' = [tmpdir EXCEPT ![TempName] = r]
                   /\ Move(r, "print")
              ELSE Move(r, "returned") /\ UNCHANGED <<tmpdir, clash>>

\* printer.Fprint(out, fset, node) writes into the file that was opened
RunPrint ==
    /\ UNCHANGED nonruns
    /\ \E r \in RunIds :
         /\ At(r, "file", "print")
         /\ \E ok \in BOOLEAN :
              /\ clash' = Touch(r, "overwrite", TempName)
              /\ Move(r, IF ok THEN "run" ELSE "returned")
         /\ UNCHANGED tmpdir

\* `go run <tmp>/main_prof.go` compiles and runs what the path names; the
\* error return leaves the file, the success path goes on to os.Remove
RunExec ==
    /\ UNCHANGED nonruns
    /\ \E r \in RunIds :
         /\ At(r, "file", "run")
         /\ clash' = Touch(r, "execute", TempName)
         /\ \E ok \in BOOLEAN :
              Move(r, IF ok /\ tmpdir[TempName] # NoEntry
                      THEN "remove" ELSE "returned")
         /\ UNCHANGED tmpdir

\* os.Remove(tempFile) at the end of writeAndExecute
RunRemove ==
    /\ UNCHANGED nonruns
    /\ \E r \in RunIds :
         /\ At(r, "file", "remove")
         /\ clash' = Touch(r, "delete", TempName)
         /\ tmpdir' = [tmpdir EXCEPT ![TempName] = NoEntry]
         /\ Move(r, "returned")

\* os.MkdirTemp("", "peep-pkg-"): a directory of a name that is not taken
RunMkdir ==
    /\ UNCHANGED nonruns
    /\ \E r \in RunIds :
         /\ At(r, "dir", "create")
         /\ \/ \E d \in DirNames :
                 /\ tmpdir[d] = NoEntry
                 /\ tmpdir' = [tmpdir EXCEPT ![d] = r]
                 /\ runs' = [runs EXCEPT ![r].pc = "run", ![r].dir = d]
            \/ Move(r, "returned") /\ UNCHANGED tmpdir
         /\ UNCHANGED clash

\* the files written into tempDir, and `go run` with cmd.Dir = tempDir
RunExecPkg ==
    /\ UNCHANGED nonruns
    /\ \E r \in RunIds :
         /\ At(r, "dir", "run")
         /\ clash' = Touch(r, "execute", runs[r].dir)
         /\ Move(r, "removeall")
         /\ UNCHANGED tmpdir

\* the deferred os.RemoveAll(tempDir), on every return
RunRemoveAll ==
    /\ UNCHANGED nonruns
    /\ \E r \in RunIds :
         /\ At(r, "dir", "removeall")
         /\ clash' = Touch(r, "delete", runs[r].dir)
         /\ tmpdir' = [tmpdir EXCEPT ![runs[r].dir] = NoEntry]
         /\ Move(r, "returned")

RunsNext ==
    \/ RunCreate \/ RunPrint \/ RunExec \/ RunRemove
    \/ RunMkdir \/ RunExecPkg \/ RunRemoveAll

SpecRuns == RunsInit /\ [][RunsNext]_vars

(***************************************************************************)
(* Spec: one run of the driver                                             *)
(***************************************************************************)
Init == DriverInit /\ PureIdle /\ MetricsIdle /\ TreeIdle /\ RunsIdle

Next == DriverNext

Spec == Init /\ [][Next]_vars

(***************************************************************************)
(* SpecMetrics: the relay, the clock and the /metrics handler              *)
(***************************************************************************)
InitMetrics ==
    MetricsInit /\ DriverIdle /\ PureIdle /\ TreeIdle /\ RunsIdle

SpecMetrics == InitMetrics /\ [][MetricsNext]_vars

\* the files of the list that parse and contain an entry point: a free
\* function main (a method main on a type does not count)
EntryFiles ==
    {f \in Range(files) :
        /\ parsed[f].parses
        /\ \E d \in Range(parsed[f].decls) : d.name = "main" /\ d.recv = FALSE}

\* C9: findMainFile returns p exactly when p is the only file of the list that
\* parses and contains an entry point; with no such file it reports absence,
\* with two or more it reports ambiguity and lists every such file; a file
\* that fails to parse is skipped and never yields another error
FindMainFileContract ==
    found # NoResult =>
        /\ found.err \in {"nil", "absence", "ambiguity"}
        /\ \A p \in FileNames :
              (found.err = "nil" /\ found.path = p) <=> EntryFiles = {p}
        /\ found.err = "absence" <=> EntryFiles = {}
        /\ found.err = "ambiguity" <=> Cardinality(EntryFiles) >= 2
        /\ found.err = "ambiguity" => Range(found.listed) = EntryFiles
        /\ found.err = "nil" => found.path \in EntryFiles

\* two files hold an entry point next to one that does not parse
FindMainFileAmbiguousSeen ==
    /\ found.err = "ambiguity"
    /\ Cardinality(EntryFiles) = 2
    /\ \E f \in Range(files) : ~parsed[f].parses

(***************************************************************************)
(* Properties of the driver (Spec)                                         *)
(***************************************************************************)
InOverlay == {q \in DOMAIN fs : q.dir = "overlay"}

\* C1: in single-file mode, once writeAndExecute has created the temporary
\* file, that file no longer exists when writeAndExecute has returned, on
\* every return path (success, failed serialization, failed subprocess)
TempFileGoneOnReturn ==
    (cfg.argKind = "file" /\ pc = "returned" /\ hist.tmpCreated)
        => TempFile \notin DOMAIN fs

\* C2: in package mode, once writeAndExecutePackage has created the overlay
\* directory, the directory and everything in it no longer exist when
\* writeAndExecutePackage has returned, on every return path
OverlayGoneOnReturn ==
    (cfg.argKind = "dir" /\ pc \in {"returned", "done"} /\ hist.dirCreated
        /\ retErr # "none")
        => InOverlay = {}

\* the subprocess failed after it wrote into the overlay, and
\* writeAndExecutePackage has returned the execution error
OverlayGoneAfterFailedRun ==
    /\ cfg.argKind = "dir" /\ pc = "returned" /\ hist.dirCreated
    /\ retErr = "exec" /\ sub = "exit1"
    /\ InOverlay = {}
    /\ \E q \in DOMAIN fs : q.dir = "/" /\ fs[q].kind = "prof"

\* C3: after a successful package-mode run, every output path named by the
\* printed summary, resolved against the driver's working directory, holds an
\* artifact when writeAndExecutePackage has returned
SummaryArtifactsExist ==
    (cfg.argKind = "dir" /\ pc = "returned" /\ retErr = "nil")
        => \A p \in summary : Resolve("cwd", p) \in DOMAIN fs

\* C8 as stated: in dashboard mode, after the subprocess has exited, whatever
\* its exit status, the driver keeps running and the server keeps listening
\* until the interrupt signal arrives
DashboardOutlivesAnyExit ==
    [][(cfg.dash /\ sub \in {"exit0", "exit1"} /\ status = "running"
            /\ dash = "listening" /\ ~sig)
        => ((status' = "running" /\ dash' = "listening") \/ sig')]_vars

\* C8: in dashboard mode, after the subprocess has exited with status 0 while
\* the server is listening, the driver keeps running and the server keeps
\* listening until the interrupt signal arrives
DashboardOutlivesSuccess ==
    [][(cfg.dash /\ sub = "exit0" /\ status = "running"
            /\ dash = "listening" /\ ~sig)
        => ((status' = "running" /\ dash' = "listening") \/ sig')]_vars

\* the driver blocks on the context after a successful run, server listening
DashboardWaitsAfterSuccess ==
    /\ cfg.dash /\ sub = "exit0" /\ status = "running"
    /\ dash = "listening" /\ ~sig
    /\ pc \in {"wae_block", "pkg_block"}

AnalysisFailed == analysis \in {"parse", "nomain", "absence", "ambiguity"}

\* C10: when analysis fails, the run ends with an error and no temporary file
\* or overlay directory has been created, the dashboard server has not been
\* started, and neither `go mod tidy` nor `go run` has been invoked
AnalysisFailureTouchesNothing ==
    AnalysisFailed =>
        /\ status = "exit1"
        /\ ~hist.tmpCreated /\ ~hist.dirCreated /\ ~hist.dashStarted
        /\ hist.tidyRuns = 0 /\ hist.goRuns = 0
        /\ dash = "off" /\ sub = "none"
        /\ \A q \in DOMAIN fs : q.dir \notin {"tmp", "overlay"}

\* findMainFile reported two entry files and the driver has ended
AmbiguityEndsRun ==
    /\ analysis = "ambiguity" /\ pc = "done" /\ status = "exit1"
    /\ cfg.argKind = "dir"

(***************************************************************************)
(* Properties of the relay and the /metrics handler (SpecMetrics).         *)
(* resp.data is what os.ReadFile returned, resp.at the handler's           *)
(* time.Now(), resp.saw the relay's own metrics file at the time of the    *)
(* read.                                                                   *)
(***************************************************************************)
Answered == resp # NoResp

\* C4: in single-file and in package mode the handler reads the file the
\* relay writes: a request that reads while the relay's file holds a complete
\* snapshot, answered within 2000 ms of that snapshot's timestamp, returns
\* that snapshot's bytes
HandlerServesRelayFile ==
    (Answered /\ resp.saw.form = "snap" /\ resp.saw.seq >= 1
        /\ 2 * resp.at - resp.saw.ts2 <= 2 * StaleMs)
        => resp.body = resp.saw

\* C5: for a metrics file that is present and parses as a JSON object with a
\* numeric timestamp ts, the response is {} when now - ts > 2000 ms and is
\* the raw file bytes when now - ts <= 2000 ms
StalenessThreshold ==
    (Answered /\ ~resp.readErr /\ resp.data.form = "snap") =>
        /\ 2 * resp.at - resp.data.ts2 > 2 * StaleMs => resp.body = EmptyObject
        /\ 2 * resp.at - resp.data.ts2 <= 2 * StaleMs => resp.body = resp.data

\* a snapshot exactly 2000 ms old is forwarded
BoundaryForwarded ==
    /\ Answered /\ ~resp.readErr /\ resp.data.form = "snap"
    /\ 2 * resp.at - resp.data.ts2 = 2 * StaleMs
    /\ resp.body = resp.data

\* C6: a GET /metrics never answers with an error status, whatever the state
\* of the metrics file; when the file is absent or does not parse the body
\* is exactly {}
NeverAnErrorStatus ==
    Answered =>
        /\ resp.status = 200
        /\ (resp.readErr \/ resp.data.form \in {"empty", "partial", "array"})
              => resp.body = EmptyObject

\* a request answered before the relay wrote its first snapshot
AnsweredBeforeFirstSnapshot ==
    /\ Answered /\ resp.readErr /\ relay.seq = 0 /\ lastTs = -1
    /\ resp.status = 200 /\ resp.body = EmptyObject

\* what the relay leaves under the file name: nothing, a file cut short by
\* the truncation or in the middle of the write, or one of its snapshots
FromRelay(b) == b.form \in {"absent", "empty"} \/ b.seq >= 1

\* C7: every GET /metrics answered more than 2000 ms after the timestamp of
\* the last snapshot the monitored program wrote returns {}: the last known
\* value is not shown once it is stale
StaleNeverShown ==
    (Answered /\ FromRelay(resp.data) /\ lastTs >= 0
        /\ resp.at - lastTs > StaleMs)
        => resp.body = EmptyObject

\* the program is gone, its last snapshot is still on disk, the answer is {}
StaleAfterExit ==
    /\ Answered /\ prog = "exited" /\ lastTs >= 0
    /\ resp.data.form = "snap" /\ resp.data.seq >= 1
    /\ resp.at - lastTs > StaleMs
    /\ resp.body = EmptyObject

\* C27: in dashboard mode, once the instrumented program has ended by
\* returning from main, peep_metrics.json does not exist, however the
\* relay's write and the deferred os.Remove interleave
MetricsFileGoneAfterReturn ==
    prog = "ended" => disk[RelayDir] = Absent

\* C28: every body other than {} that GET /metrics returns is the content of
\* a file that parses as an object with a numeric timestampMs, and
\* 0 <= now - timestampMs <= 2000 at the time of the request: a file
\* without a numeric timestampMs or with a timestamp in the future is never
\* forwarded
ForwardedHasFreshTimestamp ==
    (Answered /\ resp.body # EmptyObject) =>
        /\ resp.body.form = "snap"
        /\ 0 <= 2 * resp.at - resp.body.ts2
        /\ 2 * resp.at - resp.body.ts2 <= 2 * StaleMs

\* C29: however the relay's truncate-then-write meets the handling of a
\* request, the body GET /metrics returns for what it read of the relay's
\* file is {} or the whole of one snapshot the relay wrote: an empty or
\* partially written file is never sent
TornSnapshotNeverSent ==
    (Answered /\ FromRelay(resp.data)) =>
        \/ resp.body = EmptyObject
        \/ resp.body.form = "snap" /\ resp.body.seq >= 1
                /\ resp.body.seq <= MaxSnaps /\ resp.body = resp.data

PartialReadAnsweredEmpty ==
    /\ Answered
    /\ resp.data.form = "partial"
    /\ resp.body = EmptyObject
    /\ resp.status = 200

\* C18: whenever the handler's os.ReadFile meets the relay's os.WriteFile,
\* what the handler reads of the relay's file is the whole of one snapshot,
\* or the file is absent: never an empty or partially written file
HandlerReadsWholeSnapshot ==
    (req.pc = "read" /\ FromRelay(req.data))
        => req.data.form \in {"absent", "snap"}

(***************************************************************************)
(* More properties of the driver (Spec)                                    *)
(***************************************************************************)
SubFailed == sub \in {"exit1", "spawnfail"}

\* C14: `go run` is started at most once in a run; when it fails (non-zero
\* exit or failed spawn) the driver returns the execution error, prints no
\* summary and the process ends with a non-zero status; the process ends
\* with status 0 only when nothing failed, and a run in which nothing
\* failed ends with status 0
SubprocessFailureFatal ==
    /\ hist.goRuns <= 1
    /\ SubFailed => (summary = {} /\ status # "exit0")
    /\ (SubFailed /\ pc \in {"returned", "done"}) =>
          (retErr = "exec" /\ (pc = "done" => status = "exit1"))
    /\ status = "exit0" => (sub = "exit0" /\ retErr = "nil")
    /\ (pc = "done" /\ retErr = "nil" /\ dash # "failed") => status = "exit0"

FailedRunEndsNonZero ==
    /\ pc = "done" /\ status = "exit1"
    /\ sub = "exit1" /\ retErr = "exec"
    /\ hist.goRuns = 1 /\ summary = {}

\* the path a profile is written to: the -cpu-out / -mem-out value, or the
\* default name
CpuPath(c) == IF c.cpuOutFile = "" THEN "cpu.prof" ELSE c.cpuOutFile
MemPath(c) == IF c.memOutFile = "" THEN "mem.prof" ELSE c.memOutFile

\* C15: after a successful single-file run (the output files did not exist
\* before it) a file exists at the CPU output path exactly when CPU
\* profiling is enabled, and at the memory output path exactly when memory
\* profiling is enabled
ArtifactsMatchPlan ==
    (cfg.argKind = "file" /\ pc \in {"returned", "done"} /\ retErr = "nil") =>
        /\ (Resolve("cwd", CpuPath(cfg)) \in DOMAIN fs) <=> EnableCPU(cfg)
        /\ (Resolve("cwd", MemPath(cfg)) \in DOMAIN fs) <=> EnableMem(cfg)

CpuOnlyRunLeavesCpuProfile ==
    /\ cfg.argKind = "file" /\ pc = "done" /\ status = "exit0"
    /\ cfg.cpuOnly /\ ~cfg.memOnly
    /\ cfg.cpuOutFile = "" /\ cfg.memOutFile = ""
    /\ Path("cwd", "cpu.prof") \in DOMAIN fs
    /\ Path("cwd", "mem.prof") \notin DOMAIN fs

\* C16: in dashboard mode, when the HTTP listener fails to start, the run
\* ends with a non-zero status and the temporary file (single-file mode) or
\* the overlay directory (package mode) the run created is gone when the
\* driver process has exited
ListenerFailureCleansUp ==
    (cfg.dash /\ dash = "failed") =>
        /\ status = "exit1"
        /\ TempFile \notin DOMAIN fs
        /\ InOverlay = {}

\* C19: in dashboard mode, whenever `go run` is started the HTTP listener
\* has begun listening
GoRunAfterListening ==
    [][(cfg.dash /\ hist'.goRuns > hist.goRuns) => dash = "listening"]_vars

\* C20: in dashboard mode, once the interrupt has arrived the driver process
\* does not terminate before server.Shutdown has been invoked and has
\* returned
ShutdownBeforeExit ==
    (cfg.dash /\ sig /\ status # "running" /\ dash # "failed")
        => dash = "closed"

\* the files of the overlay directory and what each holds
OverlayFiles == {q \in InOverlay : q # OverlayDir}
OtherFiles == Range(cfg.pkg.files) \ {mainFile}
OverlaySources ==
    /\ Path("overlay", mainFile) \in OverlayFiles
    /\ fs[Path("overlay", mainFile)] = File("instr", mainFile)
    /\ \A n \in OtherFiles :
          /\ Path("overlay", n) \in OverlayFiles
          /\ fs[Path("overlay", n)] = File("orig", n)
    /\ \A q \in OverlayFiles : fs[q] # File("orig", mainFile)
    /\ {q.name : q \in OverlayFiles}
          \subseteq Range(cfg.pkg.files) \cup {"go.mod", "go.sum"}
    /\ (Path("overlay", "go.mod") \in OverlayFiles) <=> cfg.pkg.gomod

\* C25: in package mode, when `go run` is started the overlay directory
\* holds exactly the serialized instrumented tree under the entry file's
\* base name, every other package file under its base name with the bytes
\* of the original, and go.mod / go.sum iff they exist next to the entry
\* file; the un-instrumented entry file is never copied
OverlayExactWhenRunStarts ==
    (cfg.argKind = "dir" /\ sub = "running") =>
        /\ OverlaySources
        /\ (Path("overlay", "go.sum") \in OverlayFiles) <=> cfg.pkg.gosum

\* C25, amended: as above, but go.sum is in the overlay when it exists next
\* to the entry file or when `go mod tidy` wrote it there
OverlayWhenRunStarts ==
    (cfg.argKind = "dir" /\ sub = "running") =>
        /\ OverlaySources
        /\ cfg.pkg.gosum => Path("overlay", "go.sum") \in OverlayFiles
        /\ (Path("overlay", "go.sum") \in OverlayFiles /\ ~cfg.pkg.gosum) =>
              /\ cfg.pkg.gomod
              /\ hist.tidyRuns = 1
              /\ fs[Path("overlay", "go.sum")] = File("tidy", "go.sum")

OverlayCompleteAtRun ==
    /\ cfg.argKind = "dir" /\ sub = "running"
    /\ cfg.pkg.gomod /\ cfg.pkg.gosum
    /\ OtherFiles # {}
    /\ {q.name : q \in OverlayFiles} =
          Range(cfg.pkg.files) \cup {"go.mod", "go.sum"}

\* C26: in package mode, when a go.mod was copied into the overlay,
\* `go mod tidy` has run there and succeeded before the dashboard server is
\* started and before `go run` is started; when it fails the run returns
\* an error and `go run` is never started
TidyBeforeDashboardAndRun ==
    cfg.argKind = "dir" =>
        /\ (cfg.pkg.gomod /\ (hist.dashStarted \/ hist.goRuns >= 1)) =>
              (hist.tidyRuns = 1 /\ retErr # "tidy")
        /\ (TidyNeeded(fs) /\ pc \in {"pkg_dash", "pkg_run"}) =>
              hist.tidyRuns = 1
        /\ retErr = "tidy" =>
              /\ pc \in {"returned", "done"}
              /\ hist.goRuns = 0 /\ sub = "none" /\ ~hist.dashStarted
              /\ status # "exit0"

TidiedThenRunning ==
    /\ cfg.argKind = "dir" /\ cfg.pkg.gomod /\ cfg.dash
    /\ hist.tidyRuns = 1
    /\ hist.dashStarted /\ sub = "running"

\* C21: when runs of the driver execute at the same time, no run
\* overwrites, executes or deletes a single-file temporary source file or
\* an overlay directory that another live run created
TempEntriesExclusive == clash = {}

(***************************************************************************)
(* Claims about the plan and the rewriting of the tree (SpecTree)          *)
(***************************************************************************)
Count(p, s) == Cardinality({i \in DOMAIN s : s[i] = p})
IsPrefix(a, b) == Len(a) <= Len(b) /\ \A i \in DOMAIN a : a[i] = b[i]
FreeMains(t) == {d \in Range(t.decls) : d.name = "main" /\ d.recv = FALSE}
MethodMains(t) == {d \in Range(t.decls) : d.name = "main" /\ d.recv = TRUE}

\* C11: hasMainFunction answers true exactly when the tree holds a function
\* declaration named main without a receiver: a tree whose only main is a
\* method is answered false and processGoFile fails with the no-main error,
\* a tree with both a method main and a free function main is answered true
HasMainIffFreeMain ==
    /\ hasMain # "unknown" =>
          ((hasMain = "true") <=> (FreeMains(orig) # {}))
    /\ (tpc = "done" /\ orig.parses
            /\ MethodMains(orig) # {} /\ FreeMains(orig) = {}) =>
          (hasMain = "false" /\ perr = "nomain")
    /\ (tpc = "done" /\ orig.parses
            /\ MethodMains(orig) # {} /\ FreeMains(orig) # {}) =>
          (hasMain = "true" /\ perr = "nil")

MethodMainRejected ==
    /\ tpc = "done"
    /\ MethodMains(orig) # {} /\ FreeMains(orig) = {}
    /\ hasMain = "false" /\ perr = "nomain"

\* what C12 and its amended form share: a call adds one entry at the end
\* when the path was absent and none when it was present, a repeated call
\* changes nothing, and what was in the list stays where it was
AddImportCallShape ==
    /\ IsPrefix(imp.before, ast.imports)
    /\ Len(ast.imports) =
          Len(imp.before) + (IF imp.pkg \in Range(imp.before) THEN 0 ELSE 1)
    /\ imp.pkg \in Range(ast.imports)
    /\ (imp.calls >= 2 /\ imp.prev = imp.pkg) => ast.imports = imp.before

\* C12: after a call of addImportIfMissing the path appears exactly once in
\* the import list (one entry added if it was absent, none if present), a
\* second call with the same path leaves the list unchanged, and no call
\* removes or duplicates an existing import
AddImportExactlyOnce ==
    imp.calls >= 1 =>
        /\ AddImportCallShape
        /\ Count(imp.pkg, ast.imports) = 1

\* C12, amended: as above, but the path appears exactly once only when the
\* tree did not import it more than once already; a call never changes how
\* often a path that was present appears
AddImportIdempotent ==
    imp.calls >= 1 =>
        /\ AddImportCallShape
        /\ \A p \in ImportPaths :
              Count(p, ast.imports) =
                 IF p = imp.pkg /\ Count(p, imp.before) = 0 THEN 1
                 ELSE Count(p, imp.before)

AddedOnceThenUnchanged ==
    /\ imp.calls = 2 /\ imp.prev = imp.pkg
    /\ imp.pkg \notin Range(orig.imports)
    /\ ast.imports = Append(orig.imports, imp.pkg)

\* what C13 and its amended form share: after a successful processGoFile the
\* three profiling imports are present, each dashboard import is present
\* exactly when it was imported already or the dashboard is enabled, and
\* every import of the original file is still there
ProcessedImportsShape ==
    /\ RequiredImports \subseteq Range(ast.imports)
    /\ \A p \in DashboardImports :
          (p \in Range(ast.imports)) <=>
             (p \in Range(orig.imports) \/ plan.web)
    /\ IsPrefix(orig.imports, ast.imports)

\* C13: after a successful processGoFile the imports hold os, log and
\* runtime/pprof, hold the four dashboard imports exactly when they were
\* imported already or the dashboard is enabled, each of these paths
\* appears exactly once, and every original import is still present
ProcessedImportsExactlyOnce ==
    (tpc = "done" /\ perr = "nil") =>
        /\ ProcessedImportsShape
        /\ \A p \in RequiredImports \cup DashboardImports :
              p \in Range(ast.imports) => Count(p, ast.imports) = 1

\* C13, amended: each of these paths appears as often as the original file
\* imported it, and once when the original file did not import it
ProcessedImportsNoDuplicates ==
    (tpc = "done" /\ perr = "nil") =>
        /\ ProcessedImportsShape
        /\ \A p \in ImportPaths :
              Count(p, ast.imports) =
                 IF p \in Range(ast.imports) /\ Count(p, orig.imports) = 0
                 THEN 1 ELSE Count(p, orig.imports)

DashboardImportKeptWithoutDashboard ==
    /\ tpc = "done" /\ perr = "nil" /\ ~plan.web
    /\ "time" \in Range(orig.imports)
    /\ "time" \in Range(ast.imports)
    /\ "runtime" \notin Range(ast.imports)
    /\ "os" \notin Range(orig.imports)

\* C17: CPU profiling is enabled exactly when -cpu is given or neither flag
\* is, memory profiling exactly when -mem is given or neither flag is; both
\* are enabled when neither or both flags are given, and the plan the
\* command line builds never has zero modes
PlanFromFlags ==
    tpc \in {"check", "inject", "done"} =>
        LET neither == ~flags.cpuOnly /\ ~flags.memOnly
            both == flags.cpuOnly /\ flags.memOnly
        IN  /\ plan.cpu <=> (flags.cpuOnly \/ neither)
            /\ plan.mem <=> (flags.memOnly \/ neither)
            /\ (neither \/ both) => (plan.cpu /\ plan.mem)
            /\ plan.cpu \/ plan.mem

BothFlagsBothModes ==
    /\ tpc = "done" /\ perr = "nil"
    /\ flags.cpuOnly /\ flags.memOnly
    /\ plan.cpu /\ plan.mem

(***************************************************************************)
(* Claims about the injected statements and the generated names (SpecTree) *)
(***************************************************************************)
Instrumented == tpc = "instrumented" \/ (tpc = "done" /\ perr = "nil")
EntryPoints == {i \in DOMAIN orig.decls :
                  orig.decls[i].name = "main" /\ orig.decls[i].recv = FALSE}

CpuOps == <<"os.Create", "if err != nil log.Fatal", "pprof.StartCPUProfile",
            "defer pprof.StopCPUProfile">>
MemOps == <<"os.Create", "if err != nil log.Fatal",
            "defer pprof.WriteHeapProfile Close">>
DashOps == <<"metricsFile :=", "defer os.Remove", "go relay">>
ExpectedOps == (IF plan.cpu THEN CpuOps ELSE <<>>)
               \o (IF plan.mem THEN MemOps ELSE <<>>)
               \o (IF plan.web THEN DashOps ELSE <<>>)
Grown == (IF plan.cpu THEN 4 ELSE 0) + (IF plan.mem THEN 3 ELSE 0)
         + (IF plan.web THEN 3 ELSE 0)

\* C22: after instrumentMainFunction the body of the entry point is the CPU
\* block (4 statements, present iff cpu), then the memory block (3, iff
\* mem), then the dashboard block (3, iff dash), then the original
\* statements in their order: the body grows by 4*cpu + 3*mem + 3*dash
InjectedBlocksThenOriginal ==
    Instrumented =>
        \A i \in EntryPoints :
            LET body == ast.decls[i].body
                old == orig.decls[i].body
            IN  /\ Len(body) = Len(old) + Grown
                /\ Len(ExpectedOps) = Grown
                /\ \A j \in 1..Grown : body[j].op = ExpectedOps[j]
                /\ SubSeq(body, Grown + 1, Len(body)) = old
                /\ plan.cpu => body[1].file = "cpu.prof"
                /\ plan.mem =>
                      body[(IF plan.cpu THEN 4 ELSE 0) + 1].file = "mem.prof"

AllBlocksInjected ==
    /\ tpc = "instrumented"
    /\ plan.cpu /\ plan.mem /\ plan.web
    /\ \E i \in EntryPoints :
          /\ orig.decls[i].body = <<UserStmt2, UserStmt>>
          /\ Len(ast.decls[i].body) = 12

\* C23: instrumentMainFunction on a tree without an entry point (also one
\* whose only main is a method) returns and leaves the tree as it was, for
\* every plan
NoEntryPointNoChange ==
    (tpc = "instrumented" /\ EntryPoints = {}) => ast = orig

MethodMainLeftAlone ==
    /\ tpc = "instrumented"
    /\ EntryPoints = {}
    /\ \E i \in DOMAIN orig.decls :
          orig.decls[i].name = "main" /\ orig.decls[i].recv
    /\ plan.cpu /\ plan.web
    /\ ast = orig

LowerHex == {"0", "1", "2", "3", "4", "5", "6", "7", "8", "9",
             "a", "b", "c", "d", "e", "f"}

\* the form of a generated pair: "f_" and "err_" followed by the same
\* suffix of lowercase hexadecimal digits
PairForm(p) ==
    /\ Len(p.f) >= 2 /\ Len(p.e) >= 2
    /\ Head(p.f) = "f_" /\ Head(p.e) = "err_"
    /\ Tail(p.f) = Tail(p.e)
    /\ Range(Tail(p.f)) \subseteq LowerHex

InjectedNamesGenerated ==
    Instrumented =>
        \A i \in EntryPoints : \A j \in 1..Grown :
            Declares(ast.decls[i].body[j])
                \subseteq UNION {{gen[k].pair.f, gen[k].pair.e} : k \in DOMAIN gen}

====
